---- MODULE Spec2Model ----
(***************************************************************************)
(* Reminder subsystem of sletish (internal/services/reminder.go) together  *)
(* with the /remind and cancel_reminder handlers of the bot package.       *)
(*                                                                         *)
(* The relational store is the shared state: the reminders table and the   *)
(* media table.  Time is a discrete clock; one unit is one day.  A message *)
(* is represented by its length, the only thing the code inspects.         *)
(*                                                                         *)
(* ReminderService.redis is never assigned by NewReminderService, so       *)
(* invalidateUserReminderCache returns at its nil check and the cache      *)
(* branches of GetUserReminders are skipped.                               *)
(*                                                                         *)
(* The worker is the goroutine NewReminderService starts.  It sets         *)
(* isRunning, creates a ticker and receives from the ticker's channel,     *)
(* which holds at most one undelivered fire.                               *)
(*                                                                         *)
(* What a call returned is kept in `last` until the caller has taken it    *)
(* (Return); no other step is interleaved with a pending result.  Taking   *)
(* the result changes nothing else, so no behaviour of the store or of the *)
(* worker is lost.                                                         *)
(*                                                                         *)
(* The specifications share the definitions.  Spec interleaves the worker  *)
(* with facade calls whose arguments pass validation.  SpecFacade leaves   *)
(* the worker out and draws the facade's arguments from the full input     *)
(* sets, invalid ones included.  SpecWorker is the worker with its timer   *)
(* and StopWorker; SpecWorkerLive adds the fairness of the Go scheduler    *)
(* and of the timer.  SpecMark applies markReminderAsSent directly.        *)
(***************************************************************************)
EXTENDS Integers, Sequences, FiniteSets, TLC

\* ---------------------------------------------------------------- bounds
MaxTime == 2          \* the clock runs from 1 to MaxTime
MaxCreates == 1       \* CreateReminder calls that pass validation
MaxTicks == 2         \* scheduler ticks

\* ----------------------------------------------------- program constants
\* LIMIT 50 of the due-reminder query, scaled down so that a backlog larger
\* than one batch fits in the model.
BatchLimit == 2
MaxMessageLen == 200
MaxDays == 365

\* ------------------------------------------------------------ input sets
UserIds == {"", "42", "7"}
ChatUserIds == {"42", "7"}
MediaExtIds == {0, 1, 2}
MessageLens == {0, 1, 201}
RemindAtOffsets == {-1, 0, 1}
DayArgs == {"x", "0", "1", "366"}
AnimeArgs == {"x", "1", "2"}
ReminderIds == 1..(3 + MaxCreates)

VARIABLES now, reminders, nextId, media, nextMediaId, creates,
          wpc, rows, fetched, fetchedAt, sendFail, markFail,
          processedCount, errorCount, sendCount, ticks, last,
          isRunning, tickerC, stopCall, attempted, cache,
          expired, botToken, sentWith, wpc2

vars == <<now, reminders, nextId, media, nextMediaId, creates,
          wpc, rows, fetched, fetchedAt, sendFail, markFail,
          processedCount, errorCount, sendCount, ticks, last,
          isRunning, tickerC, stopCall, attempted, cache,
          expired, botToken, sentWith, wpc2>>

storeVars == <<reminders, nextId, media, nextMediaId>>
lifeVars == <<isRunning, tickerC, stopCall>>
tokenVars == <<botToken, sentWith>>
workerVars == <<wpc, rows, fetched, fetchedAt, sendFail, markFail,
                processedCount, errorCount, sendCount, ticks, attempted,
                lifeVars, expired, tokenVars, wpc2>>

\* ------------------------------------------------------------- the store
\* Rows the store may hold when the service is constructed: the store is
\* persistent and outlives the process.  Row 1 was delivered earlier, rows
\* 2 and 3 are pending.  All reference media row 1 (foreign key).
ExistingRows ==
  { [id |-> 1, user |-> "42", media |-> 1, msgLen |-> 1, remindAt |-> 1,
     sent |-> TRUE, createdAt |-> 0],
    [id |-> 2, user |-> "7", media |-> 1, msgLen |-> 1, remindAt |-> 1,
     sent |-> FALSE, createdAt |-> 0],
    [id |-> 3, user |-> "42", media |-> 1, msgLen |-> 1, remindAt |-> 2,
     sent |-> FALSE, createdAt |-> 0] }

NoReq == [via |-> "none", user |-> "", ext |-> 0, msgLen |-> 0,
          remindAt |-> 0, at |-> 0]

Result(op, user, arg, err) ==
  [op |-> op, user |-> user, arg |-> arg, err |-> err, req |-> NoReq,
   touched |-> FALSE, wrote |-> {}, out |-> <<>>]

\* No result to look at.
None == Result("none", "", 0, "none")

\* ------------------------------------------------------ the reminder cache
\* NewReminderService takes a redis client and does not store it: the redis
\* field of the service keeps its zero value.
redis == "nil"

\* cacheKey := reminderCachePrefix + userID, then + ":pending"
CacheKey(userID, includeSent) ==
  <<userID, IF includeSent THEN "" ELSE ":pending">>

CacheKeys == { CacheKey(u, i) : u \in UserIds, i \in BOOLEAN }

NoEntry == [present |-> FALSE, val |-> <<>>]

NilPanic == "panic: nil pointer dereference"

Init ==
  /\ now = 1
  /\ reminders \in {{}, ExistingRows}
  /\ nextId = 4
  /\ media = {[id |-> 1, ext |-> 1]}
  /\ nextMediaId = 2
  /\ creates = 0
  /\ wpc = "spawned"
  /\ rows = <<>>
  /\ fetched = <<>>
  /\ fetchedAt = 0
  /\ sendFail = {}
  /\ markFail = {}
  /\ processedCount = 0
  /\ errorCount = 0
  /\ sendCount = [i \in ReminderIds |-> 0]
  /\ ticks = 0
  /\ last = None
  /\ isRunning = FALSE
  /\ tickerC = 0
  /\ stopCall = "none"
  /\ attempted = {}
  /\ cache = [k \in CacheKeys |-> NoEntry]
  /\ expired = FALSE
  /\ botToken = ""
  /\ sentWith = {}
  /\ wpc2 = "none"

\* The caller takes the pending result.
Return ==
  /\ last # None
  /\ last' = None
  /\ UNCHANGED <<now, storeVars, creates, workerVars, cache>>

\* ------------------------------------------------------------- the clock
Advance ==
  /\ last = None
  /\ now < MaxTime
  /\ now' = now + 1
  /\ UNCHANGED <<storeVars, creates, workerVars, last, cache>>

\* ------------------------------------------------------ strconv.Atoi
DecimalValue == ("0" :> 0) @@ ("1" :> 1) @@ ("2" :> 2) @@ ("7" :> 7)
                @@ ("42" :> 42) @@ ("366" :> 366)

Atoi(s) ==
  IF s \in DOMAIN DecimalValue THEN [ok |-> TRUE, val |-> DecimalValue[s]]
  ELSE [ok |-> FALSE, val |-> 0]

\* ------------------------------------------------------ cache calls
UsesCache_NoNilCheck(client) == TRUE

\* if s.redis != nil
UsesCache(client) == client # "nil"

\* s.redis.Get(ctx, cacheKey).Result().  A method call on the nil client
\* panics.  An unreachable server and a missing key (redis.Nil) are errors
\* and leave the returned string empty.
RedisGet(client, c, key, up) ==
  IF client = "nil"
  THEN [panic |-> TRUE, err |-> TRUE, val |-> NoEntry]
  ELSE IF ~up \/ ~c[key].present
  THEN [panic |-> FALSE, err |-> TRUE, val |-> NoEntry]
  ELSE [panic |-> FALSE, err |-> FALSE, val |-> c[key]]

\* json.Unmarshal([]byte(cached), &cachedReminders) returns nil: the empty
\* string is not JSON, a stored entry is.
UnmarshalOk(entry) == entry.present

\* if err != nil { ...; if json.Unmarshal(...) == nil { return cached } }
ServedFromCache(get) == get.err /\ UnmarshalOk(get.val)

\* s.redis.Set(ctx, cacheKey, remindersJSON, reminderCacheTTL); its error
\* is not looked at.
RedisSet(c, key, val, up) ==
  IF up THEN [c EXCEPT ![key] = [present |-> TRUE, val |-> val]] ELSE c

\* invalidateUserReminderCache: the keys "reminder:user<id>" and
\* "reminder:user<id>:*" are deleted; a failing Keys call is skipped.
invalidateUserReminderCache(client, c, userID, up) ==
  IF ~UsesCache(client) \/ ~up THEN c
  ELSE [k \in CacheKeys |-> IF k[1] = userID THEN NoEntry ELSE c[k]]

\* The call s.redis.Keys of invalidateUserReminderCache on a nil client.
InvalidatePanics(client) == UsesCache(client) /\ client = "nil"

\* ------------------------------------------------------ CancelReminder
CancelMatches_NoSentGuard(r, userID, reminderID) ==
  r.id = reminderID /\ r.user = userID

CancelMatches_NoOwnerGuard(r, userID, reminderID) ==
  r.id = reminderID /\ r.sent = FALSE

\* WHERE id = $1 AND user_id = $2 AND sent = false
CancelMatches(r, userID, reminderID) ==
  r.id = reminderID /\ r.user = userID /\ r.sent = FALSE

CancelError_OwnerLeak(store, userID, reminderID, dbOk) ==
  IF ~dbOk THEN "failed to cancel reminder"
  ELSE IF \E r \in store : CancelMatches(r, userID, reminderID) THEN "none"
  ELSE IF \E r \in store : r.id = reminderID /\ r.user # userID
       THEN "reminder belongs to another user"
  ELSE "reminder not found or already sent"

\* The error CancelReminder returns for a given store content.
CancelError(store, userID, reminderID, dbOk) ==
  IF ~dbOk THEN "failed to cancel reminder"
  ELSE IF \E r \in store : CancelMatches(r, userID, reminderID) THEN "none"
  ELSE "reminder not found or already sent"

\* strings.Contains(err.Error(), "not found")
ContainsNotFound(err) ==
  err \in {"reminder not found or already sent"}

\* Text handleCallbackCancelReminder answers the callback with.
CancelAnswer(err) ==
  IF err = "none" THEN "Reminder cancelled!"
  ELSE IF ContainsNotFound(err) THEN "Reminder not found"
  ELSE "Failed to cancel reminder"

CancelReminder(userID, reminderID) ==
  /\ last = None
  /\ \E dbOk \in BOOLEAN, up \in BOOLEAN :
       LET err == CancelError(reminders, userID, reminderID, dbOk)
           ret == IF err = "none" /\ InvalidatePanics(redis) THEN NilPanic
                  ELSE err
       IN
       /\ reminders' = IF err = "none"
                       THEN {r \in reminders :
                               ~CancelMatches(r, userID, reminderID)}
                       ELSE reminders
       /\ cache' = IF err = "none"
                   THEN invalidateUserReminderCache(redis, cache, userID, up)
                   ELSE cache
       /\ last' = [Result("cancel", userID, reminderID, ret)
                     EXCEPT !.out = <<CancelAnswer(ret)>>]
  /\ UNCHANGED <<now, nextId, media, nextMediaId, creates, workerVars>>

\* ------------------------------------------------------ CreateReminder
ValidationErrors ==
  {"user ID cannot be empty", "invalid media ID",
   "reminder message cannot be empty", "reminder time cannot be in the past"}

\* remindAt.Before(time.Now())
Before(t, u) == t < u

Validate_NoMediaCheck(userID, mediaID, msgLen, remindAt, clock) ==
  IF userID = "" THEN "user ID cannot be empty"
  ELSE IF msgLen = 0 THEN "reminder message cannot be empty"
  ELSE IF Before(remindAt, clock) THEN "reminder time cannot be in the past"
  ELSE "none"

\* The four checks at the head of CreateReminder.
Validate(userID, mediaID, msgLen, remindAt, clock) ==
  IF userID = "" THEN "user ID cannot be empty"
  ELSE IF mediaID <= 0 THEN "invalid media ID"
  ELSE IF msgLen = 0 THEN "reminder message cannot be empty"
  ELSE IF Before(remindAt, clock) THEN "reminder time cannot be in the past"
  ELSE "none"

\* What GetAnimeByID meets upstream: the anime, status 404, or no answer.
ApiOutcomes == {"ok", "not found", "unavailable"}

\* The error CreateReminder returns for either failure of GetAnimeByID:
\* "failed to get/create media: failed to fetch anime from API: failed to get
\* anime by ID n: " followed by the text of makeRequest.
ApiNotFound ==
  "failed to get/create media: failed to fetch anime from API: API returned status code 404"

ApiUnavailable ==
  "failed to get/create media: failed to fetch anime from API: failed to make HTTP request"

\* getOrCreateMediaByExternalID: the error it returns, "none" when it
\* returns a media row.
MediaError(mediaRows, ext, lookupOk, api, insertOk) ==
  IF ~lookupOk THEN "failed to get/create media: database error"
  ELSE IF \E m \in mediaRows : m.ext = ext THEN "none"
  ELSE IF api = "not found" THEN ApiNotFound
  ELSE IF api = "unavailable" THEN ApiUnavailable
  ELSE IF ~insertOk
       THEN "failed to get/create media: failed to insert media"
  ELSE "none"

\* createMediaFromJikan: INSERT INTO media ... RETURNING id
MediaAfter(mediaRows, newId, ext, lookupOk, api, insertOk) ==
  IF /\ MediaError(mediaRows, ext, lookupOk, api, insertOk) = "none"
     /\ ~\E m \in mediaRows : m.ext = ext
  THEN mediaRows \cup {[id |-> newId, ext |-> ext]}
  ELSE mediaRows

\* INSERT INTO reminders (...) VALUES ($1, $2, $3, $4, false, $5)
NewReminderRow(req, id, mediaId, clock) ==
  [id |-> id, user |-> req.user, media |-> mediaId,
   msgLen |-> req.msgLen, remindAt |-> req.remindAt, sent |-> FALSE,
   createdAt |-> clock]

InsertReminder_Partial(store, row, dbOk) == store \cup {row}

InsertReminder_Replace(store, row, dbOk) ==
  IF dbOk
  THEN { r \in store : ~(r.user = row.user /\ r.media = row.media) }
         \cup {row}
  ELSE store

InsertReminder_Dedup(store, row, dbOk) ==
  IF dbOk /\ ~\E r \in store : /\ r.user = row.user
                                /\ r.media = row.media
                                /\ r.remindAt = row.remindAt
  THEN store \cup {row}
  ELSE store

InsertReminder(store, row, dbOk) ==
  IF dbOk THEN store \cup {row} ELSE store

\* strings.Contains(err.Error(), "does not exist"): the one error text of
\* the package with these words is that of the other CreateReminder of the
\* file, which looks the media row up by its id.
ContainsDoesNotExist(err) == err \in {"media with ID does not exist"}

\* What handleRemind sends after CreateReminder has returned err.
RemindAnswer(err) ==
  IF err = "none" THEN "Reminder set"
  ELSE IF ContainsDoesNotExist(err) THEN "Anime with that ID doesn't exist"
  ELSE "Sorry, I couldn't create the reminder"

RemindOut(via, err) == IF via = "remind" THEN <<RemindAnswer(err)>> ELSE <<>>

\* CreateReminder(userID, mediaID, message, remindAt).  The clock may move
\* on by d between the validation and the insert.
CreateReminder(via, userID, mediaID, msgLen, remindAt) ==
  LET req == [via |-> via, user |-> userID, ext |-> mediaID,
              msgLen |-> msgLen, remindAt |-> remindAt, at |-> now]
      verr == Validate(userID, mediaID, msgLen, remindAt, now) IN
  /\ last = None
  /\ IF verr # "none"
     THEN /\ last' = [Result("create", userID, 0, verr)
                        EXCEPT !.req = req, !.out = RemindOut(via, verr)]
          /\ UNCHANGED <<now, storeVars, creates, cache>>
     ELSE
       /\ creates < MaxCreates
       /\ creates' = creates + 1
       /\ \E lookupOk \in BOOLEAN, api \in ApiOutcomes, mInsOk \in BOOLEAN :
            LET merr == MediaError(media, mediaID, lookupOk, api, mInsOk)
                media1 == MediaAfter(media, nextMediaId, mediaID,
                                     lookupOk, api, mInsOk)
                mwrote == IF media1 # media THEN {"media"} ELSE {}
            IN
            /\ media' = media1
            /\ nextMediaId' = IF media1 # media THEN nextMediaId + 1
                              ELSE nextMediaId
            /\ IF merr # "none"
               THEN /\ last' = [Result("create", userID, 0, merr)
                                  EXCEPT !.req = req, !.touched = TRUE,
                                         !.wrote = mwrote,
                                         !.out = RemindOut(via, merr)]
                    /\ UNCHANGED <<now, reminders, nextId, cache>>
               ELSE \E dbOk \in BOOLEAN, d \in {0, 1}, up \in BOOLEAN :
                      LET m == CHOOSE m \in media1 : m.ext = mediaID
                          row == NewReminderRow(req, nextId, m.id, now + d)
                      IN
                      /\ now + d <= MaxTime
                      /\ now' = now + d
                      /\ reminders' = InsertReminder(reminders, row, dbOk)
                      /\ nextId' = IF dbOk THEN nextId + 1 ELSE nextId
                      /\ cache' =
                           IF dbOk
                           THEN invalidateUserReminderCache(redis, cache,
                                                            userID, up)
                           ELSE cache
                      /\ last' =
                           IF dbOk
                           THEN [Result("create", userID, nextId,
                                        IF InvalidatePanics(redis)
                                        THEN NilPanic ELSE "none")
                                   EXCEPT !.req = req, !.touched = TRUE,
                                          !.wrote = mwrote \cup {"reminder"},
                                          !.out = RemindOut(via, "none")]
                           ELSE [Result("create", userID, 0,
                                        "failed to create reminder")
                                   EXCEPT !.req = req, !.touched = TRUE,
                                          !.wrote = mwrote,
                                          !.out = RemindOut(via,
                                              "failed to create reminder")]
  /\ UNCHANGED workerVars

\* ------------------------------------------------------ handleRemind
RemindRejection_NoDayCheck(animeArg, dayArg, msgLen) ==
  IF ~Atoi(animeArg).ok THEN "Invalid anime ID"
  ELSE IF msgLen > MaxMessageLen THEN "Message too long"
  ELSE "none"

\* The three checks handleRemind makes before it calls CreateReminder, in
\* their order: the answer it sends and returns with, "none" when it goes
\* on.
RemindRejection(animeArg, dayArg, msgLen) ==
  IF ~Atoi(animeArg).ok THEN "Invalid anime ID"
  ELSE IF \/ ~Atoi(dayArg).ok
          \/ Atoi(dayArg).val < 1
          \/ Atoi(dayArg).val > MaxDays
       THEN "Invalid number of days"
  ELSE IF msgLen > MaxMessageLen THEN "Message too long"
  ELSE "none"

handleRemind(userID, animeArg, dayArg, msgLen) ==
  LET rejection == RemindRejection(animeArg, dayArg, msgLen) IN
  IF rejection # "none"
  THEN /\ last = None
       /\ last' = Result("remind", userID, 0, rejection)
       /\ UNCHANGED <<now, storeVars, creates, workerVars, cache>>
  ELSE CreateReminder("remind", userID, Atoi(animeArg).val, msgLen,
                      now + Atoi(dayArg).val)

\* ------------------------------------------------------ ORDER BY remind_at
Min(a, b) == IF a < b THEN a ELSE b

OrderByRemindAt_Desc(S) ==
  { s \in [1..Cardinality(S) -> S] :
      /\ \A i, j \in 1..Cardinality(S) : i # j => s[i] # s[j]
      /\ \A i, j \in 1..Cardinality(S) :
           i < j => s[i].remindAt >= s[j].remindAt }

\* Every order the store may return the rows of S in under
\* ORDER BY remind_at ASC (rows with equal remind_at come in any order).
OrderByRemindAt(S) ==
  { s \in [1..Cardinality(S) -> S] :
      /\ \A i, j \in 1..Cardinality(S) : i # j => s[i] # s[j]
      /\ \A i, j \in 1..Cardinality(S) :
           i < j => s[i].remindAt <= s[j].remindAt }

\* JOIN media m ON r.media_id = m.id
Joined(store, mediaRows) ==
  { r \in store : \E m \in mediaRows : m.id = r.media }

\* ------------------------------------------------------ GetUserReminders
\* WHERE r.user_id = $1 [AND r.sent = false]
UserRows_IgnoresIncludeSent(store, mediaRows, userID, includeSent) ==
  { r \in Joined(store, mediaRows) : r.user = userID }

UserRows_NoOwnerFilter(store, mediaRows, userID, includeSent) ==
  { r \in Joined(store, mediaRows) : includeSent \/ r.sent = FALSE }

UserRows(store, mediaRows, userID, includeSent) ==
  { r \in Joined(store, mediaRows) :
      r.user = userID /\ (includeSent \/ r.sent = FALSE) }

\* The cache is looked at first, then the store is queried and the result
\* is written to the cache.  `up` says whether the cache server answers.
GetUserReminders(userID, includeSent) ==
  LET key == CacheKey(userID, includeSent) IN
  /\ last = None
  /\ \E up \in BOOLEAN, dbOk \in BOOLEAN :
       LET get == RedisGet(redis, cache, key, up) IN
       IF UsesCache(redis) /\ get.panic
       THEN /\ last' = Result("list", userID, includeSent, NilPanic)
            /\ cache' = cache
       ELSE IF UsesCache(redis) /\ ServedFromCache(get)
       THEN /\ last' = [Result("list", userID, includeSent, "none")
                          EXCEPT !.out = get.val.val]
            /\ cache' = cache
       ELSE IF ~dbOk
       THEN /\ last' = [Result("list", userID, includeSent,
                               "failed t query reminders")
                          EXCEPT !.touched = TRUE]
            /\ cache' = cache
       ELSE \E s \in OrderByRemindAt(UserRows(reminders, media, userID,
                                               includeSent)) :
              /\ last' = [Result("list", userID, includeSent, "none")
                            EXCEPT !.out = s, !.touched = TRUE]
              /\ cache' = IF UsesCache(redis)
                          THEN RedisSet(cache, key, s, up)
                          ELSE cache
  /\ UNCHANGED <<now, storeVars, creates, workerVars>>

\* ------------------------------------------------------ processDueReminders
\* WHERE r.sent = false AND r.remind_at <= $1
DueRows(store, mediaRows, clock) ==
  { r \in Joined(store, mediaRows) : r.sent = FALSE /\ r.remindAt <= clock }

QueryDue_Newest(store, mediaRows, clock) ==
  { SubSeq(s, 1, Min(BatchLimit, Len(s))) :
      s \in OrderByRemindAt_Desc(DueRows(store, mediaRows, clock)) }

\* ORDER BY r.remind_at ASC LIMIT 50
QueryDue(store, mediaRows, clock) ==
  { SubSeq(s, 1, Min(BatchLimit, Len(s))) :
      s \in OrderByRemindAt(DueRows(store, mediaRows, clock)) }

SeqIds(s) == { s[i].id : i \in 1..Len(s) }

ScanDestinationsArePointers_Fixed == TRUE

\* rows.Scan(reminder.ID, reminder.UserID, ...) hands the fields of the
\* fresh models.Reminder to pgx by value.  pgx scans into pointers only: for
\* any other destination Scan returns an error and closes the result set.
ScanDestinationsArePointers == FALSE

\* UPDATE reminders SET sent = true WHERE id = $1
markReminderAsSent(store, reminderID) ==
  { IF r.id = reminderID THEN [r EXCEPT !.sent = TRUE] ELSE r : r \in store }

\* ------------------------------------------------------ the worker loop
\* time.NewTicker: the ticker's channel holds one undelivered fire; a fire
\* that finds it full is dropped.
TickerBuffer == 1

\* go service.StartReminderWorker(): the goroutine gets to run, sets the
\* flag and creates the ticker.
StartReminderWorker ==
  /\ last = None
  /\ wpc = "spawned"
  /\ wpc' = "wait"
  /\ isRunning' = TRUE
  /\ UNCHANGED <<now, storeVars, creates, rows, fetched, fetchedAt, sendFail,
                 markFail, processedCount, errorCount, sendCount, ticks,
                 attempted, tickerC, stopCall, last, cache, expired,
                 tokenVars, wpc2>>

\* The ticker fires: a non-blocking send on ticker.C.  The ticker exists
\* from NewTicker to the deferred ticker.Stop().
TimerFire ==
  /\ last = None
  /\ wpc \in {"wait", "loop", "done"}
  /\ tickerC' = Min(TickerBuffer, tickerC + 1)
  /\ UNCHANGED <<now, storeVars, creates, wpc, rows, fetched, fetchedAt,
                 sendFail, markFail, processedCount, errorCount, sendCount,
                 ticks, attempted, isRunning, stopCall, last, cache, expired,
                 tokenVars, wpc2>>

\* StopWorker().  stopCall remembers whether it was called, and whether the
\* worker goroutine had set its flag by then.
StopWorker ==
  /\ last = None
  /\ isRunning' = FALSE
  /\ stopCall' = IF wpc # "spawned" THEN "running"
                 ELSE IF stopCall = "none" THEN "early"
                 ELSE stopCall
  /\ UNCHANGED <<now, storeVars, creates, wpc, rows, fetched, fetchedAt,
                 sendFail, markFail, processedCount, errorCount, sendCount,
                 ticks, attempted, tickerC, last, cache, expired, tokenVars,
                 wpc2>>

LoopExits_Never(running) == FALSE

\* if !s.isRunning { break }
LoopExits(running) == ~running

\* A fire is received, the flag is down: the loop is left, the deferred
\* ticker.Stop() runs and the goroutine ends.
WorkerExit ==
  /\ last = None
  /\ wpc = "wait"
  /\ tickerC > 0
  /\ LoopExits(isRunning)
  /\ wpc' = "stopped"
  /\ tickerC' = 0
  /\ UNCHANGED <<now, storeVars, creates, rows, fetched, fetchedAt, sendFail,
                 markFail, processedCount, errorCount, sendCount, ticks,
                 attempted, isRunning, stopCall, last, cache, expired,
                 tokenVars, wpc2>>

LoopAfterError_Break(err) == "stopped"

\* if err := s.processDueReminders(); err != nil { log }: the loop goes on.
LoopAfterError(err) == "wait"

StoreAfterFetch_Claims(store, batch) ==
  { IF r.id \in SeqIds(batch) THEN [r EXCEPT !.sent = TRUE] ELSE r :
      r \in store }

\* The batch query is a SELECT: the store is as it was.
StoreAfterFetch(store, batch) == store

\* A fire is received, the flag is up, processDueReminders runs
\* s.db.Query(ctx, query, time.Now()).  What each later Telegram call and
\* each later UPDATE of this tick will do is fixed here: sf holds the
\* reminders whose send fails, mf those whose mark-sent fails.  ticks counts
\* the ticks started, up to MaxTicks.
TickFetch ==
  /\ last = None
  /\ wpc = "wait"
  /\ tickerC > 0
  /\ ~LoopExits(isRunning)
  /\ ticks' = Min(ticks + 1, MaxTicks)
  /\ tickerC' = tickerC - 1
  /\ expired' = FALSE
  /\ \E dbOk \in BOOLEAN :
       IF ~dbOk
       THEN /\ last' = Result("tick", "", 0, "failed to query due reminders")
            /\ wpc' = LoopAfterError("failed to query due reminders")
            /\ UNCHANGED <<reminders, rows, fetched, fetchedAt, sendFail,
                           markFail, processedCount, errorCount>>
       ELSE \E b \in QueryDue(reminders, media, now) :
            \E sf \in SUBSET SeqIds(b), mf \in SUBSET SeqIds(b) :
              /\ reminders' = StoreAfterFetch(reminders, b)
              /\ wpc' = "loop"
              /\ rows' = b
              /\ fetched' = b
              /\ fetchedAt' = now
              /\ sendFail' = sf
              /\ markFail' = mf
              /\ processedCount' = 0
              /\ errorCount' = 0
              /\ last' = Result("fetch", "", 0, "none")
  /\ UNCHANGED <<now, nextId, media, nextMediaId, creates, sendCount,
                 attempted, isRunning, stopCall, cache, tokenVars, wpc2>>

\* The deadline of context.WithTimeout(context.Background(), 2*time.Minute)
\* passes while the rows are gone through: every later call that takes ctx
\* fails.
BudgetExpires ==
  /\ last = None
  /\ wpc = "loop"
  /\ ~expired
  /\ expired' = TRUE
  /\ UNCHANGED <<now, storeVars, creates, wpc, rows, fetched, fetchedAt,
                 sendFail, markFail, processedCount, errorCount, sendCount,
                 ticks, attempted, lifeVars, last, cache, tokenVars, wpc2>>

\* SetBotToken(botToken), called by WebhookHandler with the token of the
\* environment.
SetBotToken(token) ==
  /\ last = None
  /\ botToken' = token
  /\ UNCHANGED <<now, storeVars, creates, wpc, rows, fetched, fetchedAt,
                 sendFail, markFail, processedCount, errorCount, sendCount,
                 ticks, attempted, lifeVars, last, cache, expired, sentWith,
                 wpc2>>

\* One iteration of `for rows.Next()`.  attempted collects the reminders
\* sendReminderNotification was called for in this tick, sentWith the
\* tokens SendTelegramMessage was called with.  sendCount counts the
\* notifications delivered for a reminder, up to MaxTicks.
TickRow ==
  /\ last = None
  /\ wpc = "loop"
  /\ rows # <<>>
  /\ LET r == Head(rows) IN
     IF ~ScanDestinationsArePointers
     THEN \* "Failed to scan reminder row"; the result set is closed
          /\ errorCount' = errorCount + 1
          /\ rows' = <<>>
          /\ UNCHANGED <<reminders, sendCount, processedCount, attempted,
                         sentWith>>
     ELSE IF ~Atoi(r.user).ok
     THEN \* sendReminderNotification: "invalid user ID"
          /\ attempted' = attempted \cup {r.id}
          /\ errorCount' = errorCount + 1
          /\ rows' = Tail(rows)
          /\ UNCHANGED <<reminders, sendCount, processedCount, sentWith>>
     ELSE IF expired \/ r.id \in sendFail
     THEN \* SendTelegramMessage(ctx, s.botToken, ...) failed
          /\ attempted' = attempted \cup {r.id}
          /\ sentWith' = sentWith \cup {botToken}
          /\ errorCount' = errorCount + 1
          /\ rows' = Tail(rows)
          /\ UNCHANGED <<reminders, sendCount, processedCount>>
     ELSE IF r.id \in markFail
     THEN \* sent, but markReminderAsSent failed
          /\ attempted' = attempted \cup {r.id}
          /\ sentWith' = sentWith \cup {botToken}
          /\ sendCount' = [sendCount EXCEPT ![r.id] = Min(@ + 1, MaxTicks)]
          /\ errorCount' = errorCount + 1
          /\ rows' = Tail(rows)
          /\ UNCHANGED <<reminders, processedCount>>
     ELSE /\ attempted' = attempted \cup {r.id}
          /\ sentWith' = sentWith \cup {botToken}
          /\ sendCount' = [sendCount EXCEPT ![r.id] = Min(@ + 1, MaxTicks)]
          /\ reminders' = markReminderAsSent(reminders, r.id)
          /\ processedCount' = processedCount + 1
          /\ rows' = Tail(rows)
          /\ UNCHANGED errorCount
  /\ UNCHANGED <<now, nextId, media, nextMediaId, creates, wpc, fetched,
                 fetchedAt, sendFail, markFail, ticks, last, lifeVars, cache,
                 expired, botToken, wpc2>>

\* rows.Next() returned false: the summary is logged.
TickEnd ==
  /\ last = None
  /\ wpc = "loop"
  /\ rows = <<>>
  /\ wpc' = "done"
  /\ last' = Result("tick", "", 0, "none")
  /\ UNCHANGED <<now, storeVars, creates, rows, fetched, fetchedAt,
                 sendFail, markFail, processedCount, errorCount, sendCount,
                 ticks, attempted, lifeVars, cache, expired, tokenVars, wpc2>>

\* processDueReminders returns nil; its locals are gone and the loop is
\* back at the receive.
TickReturn ==
  /\ last = None
  /\ wpc = "done"
  /\ wpc' = "wait"
  /\ fetched' = <<>>
  /\ fetchedAt' = 0
  /\ sendFail' = {}
  /\ markFail' = {}
  /\ processedCount' = 0
  /\ errorCount' = 0
  /\ attempted' = {}
  /\ expired' = FALSE
  /\ UNCHANGED <<now, storeVars, creates, rows, sendCount, ticks, last,
                 lifeVars, cache, tokenVars, wpc2>>

\* ------------------------------------------------------ markReminderAsSent
MarkError_RowsAffected(store, reminderID, dbOk) ==
  IF ~dbOk THEN "failed to mark reminder as sent"
  ELSE IF \E r \in store : r.id = reminderID /\ r.sent = FALSE THEN "none"
  ELSE "reminder not found or already sent"

\* The error markReminderAsSent returns: the Exec error and nothing else;
\* the number of affected rows is not looked at.
MarkError(store, reminderID, dbOk) ==
  IF ~dbOk THEN "failed to mark reminder as sent" ELSE "none"

\* markReminderAsSent(ctx, reminderID) called on its own.  touched records
\* that the row was already sent before the call.
MarkSent(reminderID) ==
  /\ last = None
  /\ \E dbOk \in BOOLEAN :
       /\ reminders' = IF dbOk THEN markReminderAsSent(reminders, reminderID)
                       ELSE reminders
       /\ last' = [Result("mark", "", reminderID,
                          MarkError(reminders, reminderID, dbOk))
                     EXCEPT !.touched =
                       \E r \in reminders : r.id = reminderID /\ r.sent]
  /\ UNCHANGED <<now, nextId, media, nextMediaId, creates, workerVars, cache>>

\* ------------------------------------------------------ a second loop
\* StartReminderWorker() is called once more, in a goroutine of its caller,
\* after the one NewReminderService started has begun: it raises the flag,
\* creates a ticker of its own and enters its loop.  Nothing tells it that a
\* loop is there already.
StartReminderWorkerAgain ==
  /\ last = None
  /\ wpc # "spawned"
  /\ wpc2 = "none"
  /\ wpc2' = "wait"
  /\ isRunning' = TRUE
  /\ UNCHANGED <<now, storeVars, creates, wpc, rows, fetched, fetchedAt,
                 sendFail, markFail, processedCount, errorCount, sendCount,
                 ticks, attempted, tickerC, stopCall, last, cache, expired,
                 tokenVars>>

\* The reminders a whole run of processDueReminders over batch sends: none
\* when the first scan has closed the result set.
BatchSent(batch, sf) ==
  IF ~ScanDestinationsArePointers THEN {}
  ELSE { batch[i].id : i \in { j \in 1..Len(batch) :
                                 /\ Atoi(batch[j].user).ok
                                 /\ batch[j].id \notin sf } }

\* The ticker of the second loop fires and the loop receives the fire: with
\* the flag down it leaves, otherwise it runs processDueReminders, taken
\* here in one step.
SecondLoopFire ==
  /\ last = None
  /\ wpc2 = "wait"
  /\ IF LoopExits(isRunning)
     THEN /\ wpc2' = "stopped"
          /\ last' = Result("exit2", "", 0, "none")
          /\ UNCHANGED <<reminders, sendCount, sentWith>>
     ELSE /\ wpc2' = "wait"
          /\ \E dbOk \in BOOLEAN :
               IF ~dbOk
               THEN /\ last' = Result("tick2", "", 0,
                                      "failed to query due reminders")
                    /\ UNCHANGED <<reminders, sendCount, sentWith>>
               ELSE \E b \in QueryDue(reminders, media, now) :
                    \E sf \in SUBSET SeqIds(b), mf \in SUBSET SeqIds(b) :
                      LET sent == BatchSent(b, sf) IN
                      /\ last' = Result("tick2", "", Len(b), "none")
                      /\ sendCount' =
                           [i \in ReminderIds |->
                              IF i \in sent
                              THEN Min(sendCount[i] + 1, MaxTicks)
                              ELSE sendCount[i]]
                      /\ sentWith' = IF sent # {}
                                     THEN sentWith \cup {botToken}
                                     ELSE sentWith
                      /\ reminders' =
                           { IF r.id \in sent \ mf
                             THEN [r EXCEPT !.sent = TRUE] ELSE r :
                               r \in reminders }
  /\ UNCHANGED <<now, nextId, media, nextMediaId, creates, wpc, rows,
                 fetched, fetchedAt, sendFail, markFail, processedCount,
                 errorCount, ticks, attempted, lifeVars, cache, expired,
                 botToken>>

\* ------------------------------------------------------ specifications
Next ==
  \/ Return
  \/ Advance
  \/ \E userID \in ChatUserIds, mediaID \in MediaExtIds \ {0},
        offset \in RemindAtOffsets \ {-1} :
       CreateReminder("direct", userID, mediaID, 1, now + offset)
  \/ \E userID \in ChatUserIds, reminderID \in ReminderIds :
       CancelReminder(userID, reminderID)
  \/ \E userID \in ChatUserIds, includeSent \in BOOLEAN :
       GetUserReminders(userID, includeSent)
  \/ StartReminderWorker
  \/ TimerFire
  \/ TickFetch
  \/ TickRow
  \/ TickEnd
  \/ TickReturn

Spec == Init /\ [][Next]_vars

NextFacade ==
  \/ Return
  \/ Advance
  \/ \E userID \in UserIds, mediaID \in MediaExtIds,
        msgLen \in MessageLens, offset \in RemindAtOffsets :
       CreateReminder("direct", userID, mediaID, msgLen, now + offset)
  \/ \E userID \in ChatUserIds, animeArg \in AnimeArgs, dayArg \in DayArgs,
        msgLen \in MessageLens \ {0} :
       handleRemind(userID, animeArg, dayArg, msgLen)
  \/ \E userID \in ChatUserIds, reminderID \in ReminderIds :
       CancelReminder(userID, reminderID)
  \/ \E userID \in ChatUserIds, includeSent \in BOOLEAN :
       GetUserReminders(userID, includeSent)

SpecFacade == Init /\ [][NextFacade]_vars

NextWorker ==
  \/ Return
  \/ Advance
  \/ StartReminderWorker
  \/ TimerFire
  \/ StopWorker
  \/ SetBotToken("token")
  \/ WorkerExit
  \/ TickFetch
  \/ BudgetExpires
  \/ TickRow
  \/ TickEnd
  \/ TickReturn

SpecWorker == Init /\ [][NextWorker]_vars

\* The goroutine is scheduled again and again, the ticker keeps firing and
\* a returned result is taken.
SpecWorkerLive ==
  /\ Init
  /\ [][NextWorker]_vars
  /\ WF_vars(Return)
  /\ WF_vars(StartReminderWorker)
  /\ WF_vars(TimerFire)
  /\ WF_vars(WorkerExit)
  /\ WF_vars(TickFetch)
  /\ WF_vars(TickRow)
  /\ WF_vars(TickEnd)
  /\ WF_vars(TickReturn)

\* A store whose due reminders belong to a user id that is not a decimal
\* number (users.id is VARCHAR(255), CreateReminder takes any non-empty id).
OddUserRows ==
  { [id |-> 1, user |-> "x", media |-> 1, msgLen |-> 1, remindAt |-> 1,
     sent |-> FALSE, createdAt |-> 0],
    [id |-> 2, user |-> "x", media |-> 1, msgLen |-> 1, remindAt |-> 1,
     sent |-> FALSE, createdAt |-> 0],
    [id |-> 3, user |-> "42", media |-> 1, msgLen |-> 1, remindAt |-> 2,
     sent |-> FALSE, createdAt |-> 0] }

InitOddUser ==
  /\ now = 1
  /\ reminders = OddUserRows
  /\ nextId = 4
  /\ media = {[id |-> 1, ext |-> 1]}
  /\ nextMediaId = 2
  /\ creates = 0
  /\ wpc = "spawned"
  /\ rows = <<>>
  /\ fetched = <<>>
  /\ fetchedAt = 0
  /\ sendFail = {}
  /\ markFail = {}
  /\ processedCount = 0
  /\ errorCount = 0
  /\ sendCount = [i \in ReminderIds |-> 0]
  /\ ticks = 0
  /\ last = None
  /\ isRunning = FALSE
  /\ tickerC = 0
  /\ stopCall = "none"
  /\ attempted = {}
  /\ cache = [k \in CacheKeys |-> NoEntry]
  /\ expired = FALSE
  /\ botToken = ""
  /\ sentWith = {}
  /\ wpc2 = "none"

SpecOddUser == InitOddUser /\ [][NextWorker]_vars

NextRestart ==
  \/ Return
  \/ Advance
  \/ StartReminderWorker
  \/ TimerFire
  \/ StopWorker
  \/ SetBotToken("token")
  \/ WorkerExit
  \/ TickFetch
  \/ BudgetExpires
  \/ TickRow
  \/ TickEnd
  \/ TickReturn
  \/ StartReminderWorkerAgain
  \/ SecondLoopFire

SpecRestart == Init /\ [][NextRestart]_vars

NextMark ==
  \/ Return
  \/ Advance
  \/ \E reminderID \in ReminderIds : MarkSent(reminderID)
  \/ \E userID \in ChatUserIds, reminderID \in ReminderIds :
       CancelReminder(userID, reminderID)
  \/ \E userID \in ChatUserIds, includeSent \in BOOLEAN :
       GetUserReminders(userID, includeSent)

SpecMark == Init /\ [][NextMark]_vars

\* ------------------------------------------------------ properties
Range(s) == { s[i] : i \in 1..Len(s) }

\* C1: a reminder row is inserted with sent = false, its sent flag only
\* ever goes from false to true, and a row with sent = true stays in the
\* store with sent = true through every step.
C1_SentOnlyFalseToTrue ==
  [][ /\ \A q \in reminders' :
           (\A r \in reminders : r.id # q.id) => q.sent = FALSE
      /\ \A r \in reminders : r.sent => r \in reminders'
      /\ \A r \in reminders, q \in reminders' :
           (r.id = q.id /\ r.sent) => q.sent ]_vars

\* The owner asked to cancel a delivered reminder, after a tick and a
\* create have run, and the row is still there.
C1_Witness ==
  /\ last.op = "cancel"
  /\ ticks >= 1
  /\ creates >= 1
  /\ \E r \in reminders : r.sent /\ r.id = last.arg /\ r.user = last.user

C3_PartialFailureIsolation ==
  wpc = "done" =>
    \A i \in 1..Len(fetched) :
      LET r == fetched[i]
          failed == \/ ~Atoi(r.user).ok
                    \/ r.id \in sendFail
                    \/ r.id \in markFail
      IN \A q \in reminders : q.id = r.id => (q.sent <=> ~failed)

\* C4: a reminder created with a future remindAt that a tick fetched, with
\* every send and every mark-sent of the tick succeeding, has sent = true
\* at the end of the tick, is not listed with includeSent = false and is
\* listed with includeSent = true.
C4_EndToEndDelivery ==
  (wpc = "done" /\ sendFail = {} /\ markFail = {}) =>
    \A i \in 1..Len(fetched) :
      LET r == fetched[i] IN
      (r.id >= 4 /\ r.remindAt > r.createdAt) =>
        \A q \in reminders :
          q.id = r.id =>
            /\ q.sent
            /\ q \notin UserRows(reminders, media, q.user, FALSE)
            /\ q \in UserRows(reminders, media, q.user, TRUE)

\* C5: CancelReminder(userId, reminderId) removes exactly the row with that
\* id when it belongs to userId and has sent = false; otherwise it returns
\* an error and the store is unchanged.
C5_CancelGuard ==
  [][ last'.op = "cancel" =>
        LET m == { r \in reminders : /\ r.id = last'.arg
                                     /\ r.user = last'.user
                                     /\ r.sent = FALSE } IN
        /\ last'.err = "none" => (m # {} /\ reminders' = reminders \ m)
        /\ last'.err # "none" => reminders' = reminders
        /\ m = {} => last'.err # "none"
        /\ media' = media ]_vars

\* A cancel of another user's pending reminder was refused and the row is
\* still in the store.
C5_Witness ==
  /\ last.op = "cancel"
  /\ last.err = "reminder not found or already sent"
  /\ \E r \in reminders :
       r.id = last.arg /\ r.user # last.user /\ r.sent = FALSE

\* C6: what CancelReminder returns to a user does not depend on the other
\* users' rows, and a refused cancel carries the same error and the same
\* answer whether the id is unknown, already sent or owned by someone else.
C6_CancelHidesOtherUsers ==
  /\ \A u \in ChatUserIds, id \in ReminderIds, dbOk \in BOOLEAN :
       CancelError(reminders, u, id, dbOk)
         = CancelError({r \in reminders : r.user = u}, u, id, dbOk)
  /\ (last.op = "cancel"
        /\ last.err \notin {"none", "failed to cancel reminder"}) =>
       /\ last.err = "reminder not found or already sent"
       /\ last.out = <<"Reminder not found">>

\* A user was refused the cancel of a delivered reminder of another user.
C6_Witness ==
  /\ last.op = "cancel"
  /\ last.out = <<"Reminder not found">>
  /\ \E r \in reminders : r.id = last.arg /\ r.user # last.user /\ r.sent

\* C7: CreateReminder with remindAt equal to the current time or earlier
\* fails with a validation error and writes nothing.
C7_NoPastDueBypass ==
  (last.op = "create" /\ last.req.remindAt <= last.req.at) =>
    (last.err \in ValidationErrors /\ last.wrote = {})

InvalidKnown(req) == req.user = "" \/ req.ext <= 0 \/ req.msgLen = 0

C9_FailedCreateWritesNothing ==
  [][ (last'.op = "create" /\ last'.err # "none") =>
        (reminders' = reminders /\ media' = media) ]_vars

\* C9 amended: a CreateReminder call that returns an error leaves the
\* reminders table as it was (a media row inserted for the call may stay).
C9_FailedCreateLeavesNoReminder ==
  [][ (last'.op = "create" /\ last'.err # "none") =>
        (reminders' = reminders /\ nextId' = nextId) ]_vars

\* The reminder insert failed after the call had inserted a media row.
C9_Witness ==
  /\ last.op = "create"
  /\ last.err = "failed to create reminder"
  /\ "media" \in last.wrote

\* C10: the batch a tick fetches holds only rows with sent = false and
\* remindAt <= now, in ascending remindAt order, and no due unsent row left
\* out of the batch has an earlier remindAt than a row in it.
C10_BatchIsOldestDue ==
  [][ last'.op = "fetch" =>
        /\ \A i \in 1..Len(fetched') :
             /\ fetched'[i] \in reminders
             /\ fetched'[i].sent = FALSE
             /\ fetched'[i].remindAt <= now
        /\ \A i, j \in 1..Len(fetched') :
             i < j => fetched'[i].remindAt <= fetched'[j].remindAt
        /\ \A r \in reminders :
             (r.sent = FALSE /\ r.remindAt <= now
                /\ r \notin Range(fetched')) =>
               \A i \in 1..Len(fetched') :
                 fetched'[i].remindAt <= r.remindAt ]_vars

\* A full batch with two different due times was fetched while another due
\* unsent reminder had to stay behind.
C10_Witness ==
  /\ last.op = "fetch"
  /\ Len(fetched) = BatchLimit
  /\ fetched[1].remindAt < fetched[BatchLimit].remindAt
  /\ \E r \in reminders :
       r.sent = FALSE /\ r.remindAt <= fetchedAt /\ r \notin Range(fetched)

\* C11: a tick marks at most BatchLimit reminders sent, and a tick that
\* fetched a full batch while more reminders were due, with every send and
\* every mark-sent succeeding, has marked every reminder of its batch sent.
C11_LimitEnforcement ==
  wpc = "done" =>
    /\ processedCount <= BatchLimit
    /\ ( /\ sendFail = {}
         /\ markFail = {}
         /\ Len(fetched) = BatchLimit
         /\ \E r \in reminders : /\ r.sent = FALSE
                                 /\ r.remindAt <= fetchedAt
                                 /\ r.id \notin SeqIds(fetched) ) =>
         \A i \in 1..Len(fetched) :
           \A q \in reminders : q.id = fetched[i].id => q.sent

\* C12: a fetched reminder whose send fails keeps sent = false and stays
\* due, and the tick that fetches it, the first one as well as every retry,
\* attempts its send: at the end of a tick each fetched reminder whose send
\* fails has had its send attempted and is unsent.
C12_RetryByRefetch ==
  wpc = "done" =>
    \A i \in 1..Len(fetched) :
      fetched[i].id \in sendFail =>
        /\ fetched[i].id \in attempted
        /\ \A q \in reminders : q.id = fetched[i].id => ~q.sent

\* C13: a fetched reminder whose send succeeds and whose mark-sent fails
\* has been sent by the tick and keeps sent = false, so that the next tick
\* fetches and sends it again.
C13_AtLeastOnce ==
  wpc = "done" =>
    \A i \in 1..Len(fetched) :
      ( /\ Atoi(fetched[i].user).ok
        /\ fetched[i].id \notin sendFail
        /\ fetched[i].id \in markFail ) =>
        /\ sendCount[fetched[i].id] >= 1
        /\ \A q \in reminders : q.id = fetched[i].id => ~q.sent

\* C14: markReminderAsSent leaves the reminder with sent = true and every
\* other row as it was, a second application changes nothing more, it
\* returns an error only when the store fails, never because the row was
\* sent already, and it sends no notification.
C14_MarkSentIdempotent ==
  [][ last'.op = "mark" =>
        /\ last'.err \in {"none", "failed to mark reminder as sent"}
        /\ last'.err = "none" =>
             /\ \A q \in reminders' : q.id = last'.arg => q.sent
             /\ \A r \in reminders :
                  r.id # last'.arg => r \in reminders'
             /\ Cardinality(reminders') = Cardinality(reminders)
             /\ markReminderAsSent(reminders', last'.arg) = reminders'
             /\ last'.touched => reminders' = reminders
        /\ last'.err # "none" => reminders' = reminders
        /\ sendCount' = sendCount
        /\ attempted' = attempted ]_vars

\* markReminderAsSent was applied to a reminder that was sent already and
\* returned no error.
C14_Witness ==
  /\ last.op = "mark"
  /\ last.touched
  /\ last.err = "none"
  /\ \E r \in reminders : r.id = last.arg /\ r.sent

\* C15: one tick runs at a time and a timer fire that comes while
\* processDueReminders is running is dropped: no fire is pending on the
\* ticker while a tick is in progress.
C15_NoTickQueued ==
  wpc \in {"loop", "done"} => tickerC = 0

\* C16: once StopWorker has been called, whether before or after the worker
\* goroutine began running, no new tick starts.
C16_NoTickAfterStop ==
  [][ stopCall # "none" =>
        ~(wpc = "wait" /\ tickerC' < tickerC /\ wpc' # "stopped") ]_vars

\* C17: after StopWorker was called on a running worker the loop
\* eventually ends, and once ended the worker stays ended with the flag
\* down.
C17_StopTerminates ==
  /\ (stopCall = "running") ~> (wpc = "stopped")
  /\ [][ wpc = "stopped" => (wpc' = "stopped" /\ ~isRunning') ]_vars

\* The worker ran a tick, was stopped and has left its loop.
C17_Witness ==
  /\ stopCall = "running"
  /\ wpc = "stopped"
  /\ ticks >= 1
  /\ ~isRunning

\* C18: a failed batch query ends the tick with no send and no change to
\* any reminder and leaves the worker at its receive with the flag as it
\* was; a row that fails leaves the loop over the rows running; the worker
\* loop ends only from its receive with the flag down.
C18_FailuresKeepLoopRunning ==
  [][ /\ (last'.op = "tick"
            /\ last'.err = "failed to query due reminders") =>
           /\ reminders' = reminders
           /\ sendCount' = sendCount
           /\ attempted' = attempted
           /\ wpc' = "wait"
           /\ isRunning' = isRunning
      /\ (wpc = "loop" /\ errorCount' > errorCount) =>
           (wpc' = "loop" /\ isRunning' = isRunning)
      /\ (wpc # "stopped" /\ wpc' = "stopped") =>
           (wpc = "wait" /\ ~isRunning) ]_vars

\* The query of the second tick failed and the worker is back at its
\* receive, still running.
C18_Witness ==
  /\ last.op = "tick"
  /\ last.err = "failed to query due reminders"
  /\ ticks = 2
  /\ wpc = "wait"
  /\ isRunning

\* The rows of a user that a listing has to show.
Listed(userID, includeSent) ==
  { r \in reminders : r.user = userID /\ (includeSent \/ ~r.sent) }

\* C19: with the cache absent or unreachable GetUserReminders returns the
\* rows the store holds for the user, in remindAt order, and fails only when
\* the store query fails; CreateReminder and CancelReminder return no error
\* other than their validation, media and store errors.
C19_CacheFallback ==
  /\ last.op = "list" =>
       /\ last.err \in {"none", "failed t query reminders"}
       /\ last.err = "none" =>
            /\ Range(last.out) = Listed(last.user, last.arg)
            /\ Len(last.out) = Cardinality(Listed(last.user, last.arg))
            /\ \A i, j \in 1..Len(last.out) :
                 i < j => last.out[i].remindAt <= last.out[j].remindAt
  /\ last.op = "create" =>
       last.err \in ValidationErrors \cup
         {"none", "failed to create reminder",
          "failed to get/create media: database error",
          ApiNotFound, ApiUnavailable,
          "failed to get/create media: failed to insert media"}
  /\ last.op = "cancel" =>
       last.err \in {"none", "failed to cancel reminder",
                     "reminder not found or already sent"}

\* A listing without a cache returned the two rows of a user.
C19_Witness ==
  /\ ~UsesCache(redis)
  /\ last.op = "list"
  /\ last.err = "none"
  /\ Len(last.out) = 2

\* C20: after a GetUserReminders call that returned a listing, the cache
\* holds that listing under the key of (user, includeSent): it was served
\* from there or was written there after the store query.
C20_CacheReadPath ==
  (last.op = "list" /\ last.err = "none") =>
    cache[CacheKey(last.user, last.arg)]
      = [present |-> TRUE, val |-> last.out]

\* What the cache server may hold under the list keys.
CacheContents ==
  [CacheKeys -> {NoEntry, [present |-> TRUE, val |-> <<>>]}]

C23_ListingByUser ==
  (last.op = "list" /\ last.err = "none" /\ last.touched) =>
    /\ Range(last.out) = Listed(last.user, last.arg)
    /\ Len(last.out) = Cardinality(Listed(last.user, last.arg))
    /\ \A i \in 1..Len(last.out) : last.out[i].user = last.user
    /\ \A i, j \in 1..Len(last.out) :
         i < j => last.out[i].remindAt <= last.out[j].remindAt

\* The pending list of user 42 holds reminder 3 alone while the store also
\* holds a sent reminder of that user and a reminder of user 7.
C23_Witness ==
  /\ last.op = "list"
  /\ last.user = "42"
  /\ last.arg = FALSE
  /\ last.touched
  /\ SeqIds(last.out) = {3}
  /\ \E q \in reminders : q.user = "42" /\ q.sent
  /\ \E q \in reminders : q.user = "7"

\* C24: the answer handleRemind gives after CreateReminder tells the
\* failures apart: it says that the anime does not exist exactly when the
\* upstream lookup reported not-found, and not after a validation failure
\* or a failure of the store or of the API.
C24_FailureKindsDistinguished ==
  (last.op = "create" /\ last.req.via = "remind") =>
    ( last.out = <<"Anime with that ID doesn't exist">>
        <=> last.err = ApiNotFound )

\* Two rows that differ in nothing but their id and creation time.
Twins(r, q) ==
  /\ r.id # q.id
  /\ r.user = q.user
  /\ r.media = q.media
  /\ r.msgLen = q.msgLen
  /\ r.remindAt = q.remindAt

\* C28: every step leaves each stored reminder as it was in id, owner,
\* media, message, remindAt and creation time; a row changes only by its
\* sent flag being set during a tick, and goes only while unsent through a
\* CancelReminder of its owner for its id.
C28_NoEditInPlace ==
  [][ \A r \in reminders :
        \/ r \in reminders'
        \/ /\ ~r.sent
           /\ wpc = "loop"
           /\ [r EXCEPT !.sent = TRUE] \in reminders'
           /\ \A q \in reminders' :
                q.id = r.id => q = [r EXCEPT !.sent = TRUE]
        \/ /\ ~r.sent
           /\ last'.op = "cancel"
           /\ last'.arg = r.id
           /\ last'.user = r.user
           /\ \A q \in reminders' : q.id # r.id ]_vars

\* A reminder was created after a tick had run and the three earlier rows
\* are in the store as they were.
C28_Witness ==
  /\ last.op = "create"
  /\ last.err = "none"
  /\ ticks >= 1
  /\ ExistingRows \subseteq reminders
  /\ Cardinality(reminders) = 4

\* C29: no two stored reminders share an id; a successful CreateReminder
\* adds one row with an id no row had, also when a row with the same user,
\* media, message and remindAt is there already; of two such rows both are
\* listed for the user and cancelling one leaves the other.
C29_IdsUniqueTwinsAllowed ==
  /\ [](\A r, q \in reminders : r.id = q.id => r = q)
  /\ [][ (last'.op = "create" /\ last'.err = "none") =>
           \E row \in reminders' :
             /\ row.id = last'.arg
             /\ row.user = last'.req.user
             /\ row.msgLen = last'.req.msgLen
             /\ row.remindAt = last'.req.remindAt
             /\ \A r \in reminders : r.id # row.id
             /\ reminders' = reminders \cup {row} ]_vars
  /\ [](\A r, q \in reminders :
          (Twins(r, q) /\ ~r.sent /\ ~q.sent) =>
            /\ {r, q} \subseteq UserRows(reminders, media, r.user, FALSE)
            /\ CancelError(reminders, r.user, r.id, TRUE) = "none"
            /\ q \in { x \in reminders :
                         ~CancelMatches(x, r.user, r.id) })

\* Reminder 3 was cancelled and the reminder created with the same user,
\* media, message and remindAt is still in the store.
C29_Witness ==
  /\ last.op = "cancel"
  /\ last.err = "none"
  /\ last.arg = 3
  /\ \A q \in reminders : q.id # 3
  /\ \E q \in reminders :
       Twins(q, [id |-> 3, user |-> "42", media |-> 1, msgLen |-> 1,
                 remindAt |-> 2])

\* C30: every stored reminder has remindAt later than its creation time.
C30_RemindAtAfterCreation ==
  \A r \in reminders : r.remindAt > r.createdAt

C26_BacklogDrains ==
  \A id \in ReminderIds :
    ( /\ stopCall = "none"
      /\ \E r \in reminders : r.id = id /\ ~r.sent /\ r.remindAt <= now )
    ~> ( \/ \E r \in reminders : r.id = id /\ r.sent
         \/ stopCall # "none"
         \/ expired
         \/ (last.op = "tick" /\ last.err = "failed to query due reminders")
         \/ /\ wpc \in {"loop", "done"}
            /\ id \in SeqIds(fetched)
            /\ id \in sendFail \cup markFail )

\* C27: a tick starts from the store alone, with its batch the due unsent
\* rows of the store and its counters at zero, and fetching changes no
\* row; whether or not the time budget of a tick runs out, a reminder of
\* its batch is sent in the store only when this tick has sent and marked
\* it, and is otherwise unsent and due, so that the next tick fetches it.
C27_NoCarryover ==
  /\ [][ last'.op = "fetch" =>
           /\ fetched' \in QueryDue(reminders, media, now)
           /\ rows' = fetched'
           /\ processedCount' = 0
           /\ errorCount' = 0
           /\ ~expired'
           /\ reminders' = reminders ]_vars
  /\ [](wpc \in {"loop", "done"} =>
          \A i \in 1..Len(fetched) :
            \A q \in reminders :
              q.id = fetched[i].id =>
                IF q.sent
                THEN /\ q.id \in attempted
                     /\ q.id \notin sendFail \cup markFail
                ELSE q \in DueRows(reminders, media, now))

\* The time budget of the second tick ran out; the tick has ended and the
\* rows of its batch are unsent and due.
C27_Witness ==
  /\ wpc = "done"
  /\ expired
  /\ ticks = 2
  /\ Len(fetched) = BatchLimit
  /\ \A i \in 1..Len(fetched) :
       fetched[i] \in DueRows(reminders, media, now)

Looping(pc) == pc \in {"wait", "loop", "done"}

\* C32: at most one worker loop of the service is active in every
\* reachable state, whatever the order of the StartReminderWorker and
\* StopWorker calls.
C32_AtMostOneLoop == ~(Looping(wpc) /\ Looping(wpc2))

\* The reminder with this id was created and its row is gone.
Gone(id) == id < nextId /\ \A r \in reminders : r.id # id

BadUserIds == { fetched[i].id : i \in { j \in 1..Len(fetched) :
                                          ~Atoi(fetched[j].user).ok } }

\* C33: at the end of a tick every fetched reminder whose owner id is not
\* a decimal number has had no notification delivered, is unsent and due
\* in the store, and has been counted as a failure of the tick.
C33_BadUserIdCountedNotSent ==
  wpc = "done" =>
    /\ \A id \in BadUserIds :
         /\ sendCount[id] = 0
         /\ \E q \in DueRows(reminders, media, now) : q.id = id
    /\ errorCount >= Cardinality(BadUserIds)

\* The fetched reminders of the tick that are gone from the store and
\* whose send and mark-sent were to return no error.
GoneGoodIds ==
  { fetched[i].id : i \in { j \in 1..Len(fetched) :
                              /\ Gone(fetched[j].id)
                              /\ Atoi(fetched[j].user).ok
                              /\ fetched[j].id \notin sendFail
                              /\ fetched[j].id \notin markFail } }

\* C34: a fetched reminder that was cancelled before its mark-sent, with
\* the send and the mark-sent returning no error, is counted by the tick
\* as processed and not as a failure, and the mark-sent has made no row
\* for it.
C34_MarkOfCancelledCounted ==
  wpc = "done" =>
    /\ processedCount >= Cardinality(GoneGoodIds)
    /\ errorCount <= Len(fetched) - Cardinality(GoneGoodIds)
    /\ \A id \in GoneGoodIds : \A r \in reminders : r.id # id

\* C35: handleRemind calls CreateReminder only with a parsed anime id, a
\* message of 1 to 200 characters and remindAt a whole number of days, 1 to
\* 365, after the time of the call; a command it rejects, and one that
\* CreateReminder rejects, leaves the reminders as they were.
C35_RemindGuards ==
  [][ /\ (last'.op = "create" /\ last'.req.via = "remind") =>
           /\ last'.req.remindAt - last'.req.at \in 1..MaxDays
           /\ last'.req.msgLen \in 1..MaxMessageLen
           /\ \E a \in AnimeArgs :
                Atoi(a).ok /\ Atoi(a).val = last'.req.ext
           /\ last'.err # "none" => reminders' = reminders
      /\ last'.op = "remind" =>
           /\ last'.err \in {"Invalid anime ID", "Invalid number of days",
                              "Message too long"}
           /\ UNCHANGED <<storeVars, creates>> ]_vars

\* /remind 2 1 m went through: the media row was made and the reminder is
\* stored with remindAt one day after the call.
C35_Witness ==
  /\ last.op = "create"
  /\ last.req.via = "remind"
  /\ last.err = "none"
  /\ last.req.ext = 2
  /\ \E r \in reminders :
       r.id = last.arg /\ r.remindAt = last.req.at + 1

\* C36: at the end of a tick the two counters add up to the size of the
\* fetched batch, which is at most BatchLimit, and processedCount is the
\* number of fetched reminders whose send and mark-sent returned no error.
C36_PerTickAccounting ==
  wpc = "done" =>
    /\ Len(fetched) <= BatchLimit
    /\ processedCount + errorCount = Len(fetched)
    /\ processedCount =
         Cardinality({ i \in 1..Len(fetched) :
                         /\ Atoi(fetched[i].user).ok
                         /\ fetched[i].id \notin sendFail
                         /\ fetched[i].id \notin markFail })

====
